---- MODULE Spec2Model ----
(***************************************************************************)
(* Model of the adaptive harvesting subsystem of the Reddit scraper:       *)
(*   SubredditScraper.fetch_subreddit_posts  (scrapers/subreddit_scraper)  *)
(*   TimeRangeStrategy.fetch_posts           (strategies/time_range)       *)
(*   SearchStrategy.fetch_posts              (strategies/search)           *)
(* A candidate is the pair <<url, id>>.  PaginatedStrategy, the strategy   *)
(* base class and SmartRateController are imported by these files but are  *)
(* not part of the sources at hand; they are modelled from their contract. *)
(***************************************************************************)
EXTENDS Integers, Sequences, FiniteSets, TLC

\* ------------------------------------------------------------------ bounds
MaxQuota == 3
MaxBatch == 2
NumIds == 2
MaxKeywords == 2
MaxCandidates == 5      \* longest list given to the existing-post filter
MaxBatchSize == 2       \* largest batch_size of the filter
MaxSegments == 4        \* most "/"-separated segments of a target string
MaxNegative == 1        \* a caller passes max_posts down to -MaxNegative
MaxCalls == 2           \* scrape calls made in one process

\* ------------------------------------------------------- program constants
MinWindowQuota == 100
MaxWindowQuota == 1000
SkipThreshold == 2
DefaultBatchSize == 100 \* `batch_size: int = 100` of _filter_existing_posts

Ids == 1..NumIds
\* The url of a post depends on the listing it was found in (sort and time
\* filter, or search permalink); the id does not.
Listings == {"primary", "week", "month", "year", "day", "all", "search"}
Candidates(listing) == {<<listing, id>> : id \in Ids}
SortTypes == {"hot", "top"}
CoordinatorTimeRanges == <<"week", "month", "year">>

Min(a, b) == IF a <= b THEN a ELSE b
Max(a, b) == IF a >= b THEN a ELSE b

SeqsUpTo(S, n) == UNION {[1..k -> S] : k \in 0..n}

IdOf(c) == c[2]
IdsOf(s) == {IdOf(s[i]) : i \in 1..Len(s)}
NoDuplicateIds(s) == \A i, j \in 1..Len(s) : i /= j => IdOf(s[i]) /= IdOf(s[j])

\* keywords: None, [] or a list of keywords
KeywordInputs ==
    {[isNone |-> TRUE, list |-> <<>>]}
        \cup {[isNone |-> FALSE, list |-> [i \in 1..n |-> i]] : n \in 0..MaxKeywords}

\* Python truthiness of the keywords argument
Truthy(kw) == ~kw.isNone /\ Len(kw.list) > 0

\* ------------------------------------------------------- PaginatedStrategy
\* Every list a PaginatedStrategy.fetch_posts(max_posts = quota) call can
\* return: candidates in discovery order, never more than the quota.
PaginatedFetch(listing, quota) ==
    SeqsUpTo(Candidates(listing), Max(0, Min(quota, MaxBatch)))

\* ---------------------------------------------------------- RateController
ShouldSkipStrategy(failures) == failures >= SkipThreshold
RecordSuccess(failures) == Max(0, failures - 1)
RecordRateLimited(failures) == Min(SkipThreshold, failures + 1)
RecordOtherError(failures) == Min(SkipThreshold, failures + 1)
\* the failure streak of a SmartRateController just created
FreshRateState == 0
\* the failure streak a PaginatedStrategy run may leave behind
PaginatedStreaks == 0..SkipThreshold

\* ------------------------------------------------------------- Coordinator
\* variant: the membership test is lost
IsNewNoCheck(post_id, collected) == TRUE
\* `if post_id not in collected_ids`
IsNew(post_id, collected) == post_id \notin collected

\* variant: the fallback merge loops never break
MergeBreakNever(urls, quota) == FALSE
\* `if len(all_post_urls) >= max_posts: break`
MergeBreak(urls, quota) == Len(urls) >= quota

\* the primary merge loop: dedup by id, no break
RECURSIVE MergePrimary(_, _)
MergePrimary(posts, acc) ==
    IF posts = <<>> THEN acc
    ELSE LET c == Head(posts) IN
         IF IsNew(IdOf(c), acc.ids)
         THEN MergePrimary(Tail(posts),
                  [urls |-> Append(acc.urls, c), ids |-> acc.ids \cup {IdOf(c)}])
         ELSE MergePrimary(Tail(posts), acc)

\* the fallback merge loops: dedup by id, break once max_posts is reached
RECURSIVE MergeFallback(_, _, _)
MergeFallback(posts, acc, quota) ==
    IF posts = <<>> THEN acc
    ELSE LET c == Head(posts) IN
         IF IsNew(IdOf(c), acc.ids)
         THEN LET acc2 == [urls |-> Append(acc.urls, c),
                           ids |-> acc.ids \cup {IdOf(c)}] IN
              IF MergeBreak(acc2.urls, quota) THEN acc2
              ELSE MergeFallback(Tail(posts), acc2, quota)
         ELSE MergeFallback(Tail(posts), acc, quota)

\* variants: an off-by-one deficit test, the original quota handed on, and
\* the two strategy guards without their second condition
NeedMoreInclusive(urls, quota) == Len(urls) <= quota
DeficitOriginalQuota(urls, quota) == quota
RunTimeRangeAlways(sort) == TRUE
RunSearchKeywordsOnly(kw, urls, quota) == Truthy(kw)
\* `if len(all_post_urls) < max_posts`
NeedMore(urls, quota) == Len(urls) < quota
\* `remaining = max_posts - len(all_post_urls)`
Deficit(urls, quota) == quota - Len(urls)
\* `if sort_type != 'top'`
RunTimeRange(sort) == sort /= "top"
\* `if keywords and len(all_post_urls) < max_posts`
RunSearch(kw, urls, quota) == Truthy(kw) /\ Len(urls) < quota

\* ------------------------------------------------------- TimeRangeStrategy
DefaultTimeRanges == <<"day", "week", "month", "year", "all">>
\* `if not time_ranges: time_ranges = [...]`
EffectiveTimeRanges(tr) == IF Len(tr) = 0 THEN DefaultTimeRanges ELSE tr
\* variant: the window loop has no break
QuotaReachedNever(urls, quota) == FALSE
\* `if len(post_urls) >= max_posts: break`
QuotaReached(urls, quota) == Len(urls) >= quota
\* `remaining = max(100, max_posts - len(post_urls))`; `max_posts=min(remaining, 1000)`
WindowQuota(urls, quota) == Min(Max(MinWindowQuota, quota - Len(urls)), MaxWindowQuota)

\* variant: the new batch is put in front
ExtendPostUrlsInFront(post_urls, batch_new) == batch_new \o post_urls
\* `post_urls.extend(batch_new)`
ExtendPostUrls(post_urls, batch_new) == post_urls \o batch_new

\* the time_ranges a caller may pass; <<>> stands for None and for []
TimeRangeInputs == {<<>>, CoordinatorTimeRanges, <<"all", "day">>}

\* the per-window dedup loop; returns batch_new and the grown id set
RECURSIVE DedupBatch(_, _)
DedupBatch(batch, acc) ==
    IF batch = <<>> THEN acc
    ELSE LET c == Head(batch) IN
         IF IdOf(c) \notin acc.ids
         THEN DedupBatch(Tail(batch),
                  [urls |-> Append(acc.urls, c), ids |-> acc.ids \cup {IdOf(c)}])
         ELSE DedupBatch(Tail(batch), acc)

\* ---------------------------------------------------------- SearchStrategy
\* `posts_per_keyword = max(1, max_posts // len(keywords))`
PostsPerKeyword(quota, kw) == Max(1, quota \div Len(kw.list))

\* variant: the keywords test is lost
NoKeywordsNever(kw) == FALSE
\* `if not keywords`
NoKeywords(kw) == ~Truthy(kw)

\* variant: the search strategy is given a controller of its own
SearchControllerOwn(shared) == FreshRateState
\* `self.search_strategy = SearchStrategy(session_manager, rate_controller)`:
\* the state of the controller the search strategy consults, given the state
\* of the scraper's controller
SearchController(shared) == shared

\* variant: the controller's advice is ignored
SkipAdvisedNever(failures) == FALSE
\* `if self.rate_controller.should_skip_strategy()`
SkipAdvised(failures) == ShouldSkipStrategy(failures)

\* variant: ids are not remembered across keywords
AlreadyFoundNever(post_id, found) == FALSE
\* `if post_id not in all_found_posts` (negated)
AlreadyFound(post_id, found) == post_id \in found

\* variant: a new candidate is put in front of the collected ones
AppendPostUrlInFront(post_urls, c) == <<c>> \o post_urls
\* `post_urls.append((post_url, post_id))`
AppendPostUrl(post_urls, c) == Append(post_urls, c)

\* variant: the quota is not looked at before a keyword
SearchQuotaReachedNever(post_urls, quota) == FALSE
\* `if len(post_urls) >= max_posts: break` at the head of the keyword loop
SearchQuotaReached(post_urls, quota) == Len(post_urls) >= quota

\* variant: a rate-limited keyword is searched again
AdvanceKeywordUnless429(index, status) == IF status = "429" THEN index ELSE index + 1
\* the for loop takes the next keyword, whatever the request produced
AdvanceKeyword(index, status) == index + 1

\* the loop over one response's children: stop at the quota, dedup by id
RECURSIVE SearchItems(_, _, _)
SearchItems(posts, acc, quota) ==
    IF posts = <<>> THEN acc
    ELSE IF Len(acc.urls) >= quota THEN acc
    ELSE LET c == Head(posts) IN
         IF ~AlreadyFound(IdOf(c), acc.ids)
         THEN SearchItems(Tail(posts),
                  [urls |-> AppendPostUrl(acc.urls, c), ids |-> acc.ids \cup {IdOf(c)}],
                  quota)
         ELSE SearchItems(Tail(posts), acc, quota)

\* What one search request can produce: a status and, for a 200 payload,
\* its well-formed leading children and whether a malformed part follows
\* them (a child without 'data', 'id' or 'permalink', or no children list).
SearchResponses ==
    {[status |-> "200", posts |-> p, malformed |-> b] :
        p \in SeqsUpTo(Candidates("search"), MaxBatch), b \in BOOLEAN}
    \cup {[status |-> st, posts |-> <<>>, malformed |-> FALSE] :
            st \in {"429", "other", "raise"}}

\* What SearchStrategy does around one request, in program order.
\* variant: the request is issued without asking for the delay
RequestPreludeNoDelay == <<"should_skip_strategy", "request">>
\* the skip test, `time.sleep(self.rate_controller.get_delay() * 2)`, `.get(...)`
RequestPrelude == <<"should_skip_strategy", "get_delay", "sleep", "request">>

\* what follows the request: the branch on the status code, or the handler
OutcomeEvents(r, raised) ==
    CASE r.status = "200" ->
            <<"status_200", "record_success">>
                \o (IF raised THEN <<"malformed", "record_other_error">> ELSE <<>>)
      [] r.status = "429" -> <<"status_429", "handle_rate_limit">>
      [] r.status = "other" -> <<"status_other", "record_other_error">>
      [] r.status = "raise" -> <<"raise", "record_other_error">>

\* variant: a failed keyword ends the keyword loop
AfterKeywordAbort(failed) == IF failed THEN "search_return" ELSE "search_loop"
\* after the branch on the status code, or after `continue` in the handler,
\* the for loop goes on
AfterKeyword(failed) == "search_loop"

NoResponse == [status |-> "none", posts |-> <<>>, malformed |-> FALSE]

\* ------------------------------------- RedditScraper._filter_existing_posts
FilterIds == 1..MaxCandidates

\* the lists scrape hands to the filter: a coordinator's result, no id twice
FilterInputs ==
    {s \in SeqsUpTo({<<"primary", i>> : i \in FilterIds}, MaxCandidates) :
        NoDuplicateIds(s)}

\* local_data_manager.check_post_exists(post_id)
CheckPostExists(store, post_id) == post_id \in store

\* variant: a batch reaches one candidate into the next one
BatchAtOverlapping(post_urls, i, batch_size) ==
    SubSeq(post_urls, i, Min(i + batch_size, Len(post_urls)))

\* `batch = post_urls[i:i + batch_size]`, i counted from 1
BatchAt(post_urls, i, batch_size) ==
    SubSeq(post_urls, i, Min(i + batch_size - 1, Len(post_urls)))

\* the ids of a list of candidates, in its order
IdSeq(s) == [k \in 1..Len(s) |-> IdOf(s[k])]

\* variant: the selection loop asks the store again
ChecksOfBatchTwice(batch) == IdSeq(batch) \o IdSeq(batch)
\* `for post_id in post_ids: if local_data_manager.check_post_exists(post_id)`:
\* the existence checks a batch causes
ChecksOfBatch(batch) == IdSeq(batch)

\* the ids of the batch the store reports as existing
ExistingIds(batch, store) == {id \in IdsOf(batch) : CheckPostExists(store, id)}

\* variant: the test is inverted
SurvivesIfExisting(post_id, existing_ids) == post_id \in existing_ids
\* `if post_id not in existing_ids`
Survives(post_id, existing_ids) == post_id \notin existing_ids

\* the batch's candidates appended to new_posts, in the batch's order
NewOfBatch(batch, store) ==
    LET Keep(c) == Survives(IdOf(c), ExistingIds(batch, store))
    IN SelectSeq(batch, Keep)

\* the whole loop of _filter_existing_posts from batch start i on
RECURSIVE FilterFrom(_, _, _, _, _)
FilterFrom(post_urls, i, batch_size, store, new_posts) ==
    IF i > Len(post_urls) THEN new_posts
    ELSE FilterFrom(post_urls, i + batch_size, batch_size, store,
                    new_posts \o NewOfBatch(BatchAt(post_urls, i, batch_size), store))

\* _filter_existing_posts(post_urls, batch_size) over a store
FilterExistingPosts(post_urls, batch_size, store) ==
    FilterFrom(post_urls, 1, batch_size, store, <<>>)

\* ------------------------------------------------- RedditScraper.__init__
\* A target string is modelled by target.split("/"): its segments.
TargetSegments == {"", "r", "u", "user", "reddit.com", "name"}
Targets == SeqsUpTo(TargetSegments, MaxSegments) \ {<<>>}

\* `"reddit.com" in target`
Contains(t, seg) == \E i \in 1..Len(t) : t[i] = seg
\* `"/user/" in target`, `"/r/" in target`: a segment with a "/" on each side
HasInfix(t, seg) == \E i \in 2..(Len(t) - 1) : t[i] = seg
\* `target.split("/user/")[1].split("/")[0]`: the segment after the first one
AfterInfix(t, seg) ==
    LET i == CHOOSE k \in 2..(Len(t) - 1) :
                 /\ t[k] = seg
                 /\ \A j \in 2..(k - 1) : t[j] /= seg
    IN <<t[i + 1]>>
\* `target.startswith("u/")`
StartsWith(t, seg) == Len(t) >= 2 /\ t[1] = seg
\* `target.split("/")[-1]`
LastSegment(t) == <<t[Len(t)]>>

\* `self.is_user_mode = False; self.target_name = target`, kept when no
\* branch of the if chain assigns
DefaultTarget(t) == [is_user_mode |-> FALSE, target_name |-> t]

\* the if chain of __init__
ParseTarget(t) ==
    IF Contains(t, "reddit.com")
    THEN IF HasInfix(t, "user")
         THEN [is_user_mode |-> TRUE, target_name |-> AfterInfix(t, "user")]
         ELSE IF HasInfix(t, "r")
         THEN [is_user_mode |-> FALSE, target_name |-> AfterInfix(t, "r")]
         ELSE DefaultTarget(t)
    ELSE IF StartsWith(t, "u") \/ StartsWith(t, "user")
    THEN [is_user_mode |-> TRUE, target_name |-> LastSegment(t)]
    ELSE IF StartsWith(t, "r")
    THEN [is_user_mode |-> FALSE, target_name |-> LastSegment(t)]
    ELSE DefaultTarget(t)

\* ------------------------------------------------------------------- state
VARIABLES
    max_posts, sort_type, keywords,      \* arguments of fetch_subreddit_posts
    pc,                                  \* position in fetch_subreddit_posts
    all_post_urls, collected_ids, remaining,
    primary_posts, time_range_posts, search_posts,
    calls,                               \* strategy invocations, in order
    consecutive_failures,                \* the shared RateController's streak
    tr_arg,                              \* time_ranges as passed by the caller
    tr_max_posts, tr_time_ranges, tr_post_urls, tr_collected_ids, tr_window,
    tr_requests,                         \* per-window PaginatedStrategy fetches
    s_max_posts, s_post_urls, s_found, s_index,
    s_requests,                          \* search requests issued
    s_log,                               \* trace: what the current phase of
                                         \* SearchStrategy.fetch_posts did
    s_response,                          \* trace: the response it received
    filter,                              \* a _filter_existing_posts call:
                                         \*   post_urls, batch_size, new_posts,
                                         \*   i the start of the current batch,
                                         \*   store the ids the post store holds,
                                         \*   checks the ids handed to
                                         \*   check_post_exists, in order
    scraper,                             \* the RedditScraper: target (the
                                         \*   constructor's argument, as its
                                         \*   segments between "/"),
                                         \*   is_user_mode, target_name,
                                         \*   scraped_count
    run                                  \* the current RedditScraper.scrape
                                         \*   call: its arguments, its locals
                                         \*   and what it did (see NoRun)

coordVars == <<all_post_urls, collected_ids, remaining,
               primary_posts, time_range_posts, search_posts>>
trVars == <<tr_arg, tr_max_posts, tr_time_ranges, tr_post_urls, tr_collected_ids,
            tr_window, tr_requests>>
sVars == <<s_max_posts, s_post_urls, s_found, s_index, s_requests>>
argVars == <<max_posts, sort_type, keywords>>
traceVars == <<s_log, s_response>>
restVars == <<filter, scraper, run>>
vars == <<argVars, pc, coordVars, calls, consecutive_failures, trVars, sVars,
          traceVars, restVars>>

\* _filter_existing_posts is not running
NoFilter ==
    filter = [post_urls |-> <<>>, batch_size |-> 1, store |-> {}, i |-> 1,
              new_posts |-> <<>>, checks |-> <<>>]

\* the scraper was constructed for a subreddit
NoTarget ==
    scraper = [target |-> <<"r", "name">>, is_user_mode |-> FALSE,
               target_name |-> <<"name">>, scraped_count |-> 0]

\* scrape is not running.  The fields of a scrape call:
\*   calls       scrape calls made so far in this process
\*   fresh       the call is the first one on a scraper just constructed
\*   dirty       the scraper that served the previous call was left with a
\*               non-zero scraped_count and a non-zero failure streak
\*   max_posts, callback   the arguments (callback: none, or how it behaves)
\*   post_urls   the local post_urls;  i  the loop index of the detail loop
\*   requested   harvesting issued at least one request
\*   dispatched  the coordinator calls made, each with its keyword arguments
\*   existing    ids for which check_post_exists answered true
\*   fetched     ids handed to post_scraper.scrape_post, in order
\*   saved       posts save_post stored
\*   events      the detail loop's scrape_post calls and sleeps, in order
\*   status, result_count   the returned dictionary
\*   store       the ids the post store holds
NoRun ==
    run = [calls |-> 0, fresh |-> FALSE,
           dirty |-> FALSE, max_posts |-> 0, callback |-> "none", post_urls |-> <<>>, i |-> 1,
           requested |-> FALSE, dispatched |-> <<>>, existing |-> {},
           fetched |-> <<>>, saved |-> 0, events |-> <<>>,
           status |-> "none", result_count |-> 0, store |-> {}]

\* fetch_subreddit_posts is entered: its locals, and everything it calls idle
InitLocals ==
    /\ sort_type \in SortTypes
    /\ keywords \in KeywordInputs
    /\ pc = "start"
    /\ all_post_urls = <<>>
    /\ collected_ids = {}
    /\ remaining = 0
    /\ primary_posts = <<>>
    /\ time_range_posts = <<>>
    /\ search_posts = <<>>
    /\ calls = <<>>
    /\ consecutive_failures = 0
    /\ tr_arg = <<>>
    /\ tr_max_posts = 0
    /\ tr_time_ranges = <<>>
    /\ tr_post_urls = <<>>
    /\ tr_collected_ids = {}
    /\ tr_window = 1
    /\ tr_requests = <<>>
    /\ s_max_posts = 0
    /\ s_post_urls = <<>>
    /\ s_found = {}
    /\ s_index = 1
    /\ s_requests = 0
    /\ s_log = <<>>
    /\ s_response = NoResponse
    /\ NoFilter
    /\ NoTarget
    /\ NoRun

Init ==
    /\ max_posts \in 1..MaxQuota
    /\ InitLocals

Call(strategy, quota) ==
    [strategy |-> strategy, quota |-> quota, have |-> Len(all_post_urls)]

\* ------------------------------------------------- fetch_subreddit_posts
\* Strategy 1: the primary PaginatedStrategy call and its merge loop
FetchPrimary ==
    /\ pc = "start"
    /\ \E posts \in PaginatedFetch("primary", max_posts), f \in PaginatedStreaks :
        LET m == MergePrimary(posts, [urls |-> <<>>, ids |-> {}]) IN
        /\ primary_posts' = posts
        /\ all_post_urls' = m.urls
        /\ collected_ids' = m.ids
        /\ consecutive_failures' = f
    /\ calls' = Append(calls, Call("primary", max_posts))
    /\ pc' = "deficit"
    /\ UNCHANGED <<restVars, traceVars, argVars, remaining, time_range_posts, search_posts, trVars, sVars>>

\* `if len(all_post_urls) < max_posts:` taken
DeficitFound ==
    /\ pc = "deficit"
    /\ NeedMore(all_post_urls, max_posts)
    /\ remaining' = Deficit(all_post_urls, max_posts)
    /\ pc' = "strategy2"
    /\ UNCHANGED <<restVars, traceVars, argVars, all_post_urls, collected_ids, primary_posts,
                   time_range_posts, search_posts, calls, consecutive_failures,
                   trVars, sVars>>

\* `if len(all_post_urls) < max_posts:` not taken: return
QuotaMetByPrimary ==
    /\ pc = "deficit"
    /\ ~NeedMore(all_post_urls, max_posts)
    /\ pc' = "done"
    /\ UNCHANGED <<restVars, traceVars, argVars, coordVars, calls, consecutive_failures, trVars, sVars>>

\* Strategy 2 is entered: TimeRangeStrategy.fetch_posts(max_posts=remaining, ...)
CallTimeRange ==
    /\ pc = "strategy2"
    /\ RunTimeRange(sort_type)
    /\ calls' = Append(calls, Call("time_range", remaining))
    /\ tr_arg' = CoordinatorTimeRanges
    /\ tr_max_posts' = remaining
    /\ tr_time_ranges' = CoordinatorTimeRanges
    /\ tr_post_urls' = <<>>
    /\ tr_collected_ids' = {}
    /\ tr_window' = 1
    /\ tr_requests' = <<>>
    /\ pc' = "tr_start"
    /\ UNCHANGED <<restVars, traceVars, argVars, coordVars, consecutive_failures, sVars>>

SkipTimeRange ==
    /\ pc = "strategy2"
    /\ ~RunTimeRange(sort_type)
    /\ pc' = "strategy3"
    /\ UNCHANGED <<restVars, traceVars, argVars, coordVars, calls, consecutive_failures, trVars, sVars>>

\* ------------------------------------------- TimeRangeStrategy.fetch_posts
\* `if not time_ranges: time_ranges = [...]`, then the empty accumulators
TimeRangeDefaults ==
    /\ pc = "tr_start"
    /\ tr_time_ranges' = EffectiveTimeRanges(tr_time_ranges)
    /\ pc' = "tr_loop"
    /\ UNCHANGED <<restVars, traceVars, argVars, coordVars, calls, consecutive_failures, tr_arg,
                   tr_max_posts, tr_post_urls, tr_collected_ids, tr_window,
                   tr_requests, sVars>>

\* one iteration of `for time_range in time_ranges`
TimeRangeWindow ==
    /\ pc = "tr_loop"
    /\ tr_window <= Len(tr_time_ranges)
    /\ ~QuotaReached(tr_post_urls, tr_max_posts)
    /\ LET q == WindowQuota(tr_post_urls, tr_max_posts) IN
       /\ tr_requests' = Append(tr_requests,
              [window |-> tr_time_ranges[tr_window], quota |-> q,
               have |-> Len(tr_post_urls), max_posts |-> tr_max_posts])
       /\ \E batch \in PaginatedFetch(tr_time_ranges[tr_window], q), f \in PaginatedStreaks :
            LET d == DedupBatch(batch, [urls |-> <<>>, ids |-> tr_collected_ids]) IN
            /\ tr_post_urls' = ExtendPostUrls(tr_post_urls, d.urls)
            /\ tr_collected_ids' = d.ids
            /\ consecutive_failures' = f
    /\ tr_window' = tr_window + 1
    /\ UNCHANGED <<restVars, traceVars, argVars, pc, coordVars, calls, tr_arg, tr_max_posts,
                   tr_time_ranges, sVars>>

\* the loop ends (break or list exhausted): `return post_urls`
TimeRangeReturn ==
    /\ pc = "tr_loop"
    /\ \/ tr_window > Len(tr_time_ranges)
       \/ QuotaReached(tr_post_urls, tr_max_posts)
    /\ time_range_posts' = tr_post_urls
    /\ pc' = "tr_merge"
    /\ UNCHANGED <<restVars, traceVars, argVars, all_post_urls, collected_ids, remaining, primary_posts,
                   search_posts, calls, consecutive_failures, trVars, sVars>>

\* the coordinator's merge loop over time_range_posts; the locals of the
\* finished TimeRangeStrategy call are gone
MergeTimeRange ==
    /\ pc = "tr_merge"
    /\ LET m == MergeFallback(time_range_posts,
                    [urls |-> all_post_urls, ids |-> collected_ids], max_posts) IN
       /\ all_post_urls' = m.urls
       /\ collected_ids' = m.ids
    /\ tr_arg' = <<>>
    /\ tr_max_posts' = 0
    /\ tr_time_ranges' = <<>>
    /\ tr_post_urls' = <<>>
    /\ tr_collected_ids' = {}
    /\ tr_window' = 1
    /\ tr_requests' = <<>>
    /\ pc' = "strategy3"
    /\ UNCHANGED <<restVars, traceVars, argVars, remaining, primary_posts, time_range_posts, search_posts,
                   calls, consecutive_failures, sVars>>

\* Strategy 3 is entered: SearchStrategy.fetch_posts(max_posts=remaining, ...)
CallSearch ==
    /\ pc = "strategy3"
    /\ RunSearch(keywords, all_post_urls, max_posts)
    /\ remaining' = Deficit(all_post_urls, max_posts)
    /\ calls' = Append(calls, Call("search", remaining'))
    /\ s_max_posts' = remaining'
    /\ s_post_urls' = <<>>
    /\ s_found' = {}
    /\ s_index' = 1
    /\ s_requests' = 0
    /\ pc' = "search_start"
    /\ UNCHANGED <<restVars, traceVars, argVars, all_post_urls, collected_ids, primary_posts,
                   time_range_posts, search_posts, consecutive_failures, trVars>>

SkipSearch ==
    /\ pc = "strategy3"
    /\ ~RunSearch(keywords, all_post_urls, max_posts)
    /\ pc' = "done"
    /\ UNCHANGED <<restVars, traceVars, argVars, coordVars, calls, consecutive_failures, trVars, sVars>>

\* ---------------------------------------------- SearchStrategy.fetch_posts
\* The steps of fetch_posts leave the trace variables open: the coordinator
\* runs them untraced, a direct call records the trace.

\* the two early returns before the keyword loop
SearchStartStep ==
    /\ pc = "search_start"
    /\ pc' = IF \/ NoKeywords(keywords)
                \/ SkipAdvised(SearchController(consecutive_failures))
             THEN "search_return" ELSE "search_loop"
    /\ UNCHANGED <<restVars, argVars, coordVars, calls, consecutive_failures, trVars, sVars>>

\* the children of a 200 payload taken into post_urls
Processed(r) ==
    SearchItems(r.posts, [urls |-> s_post_urls, ids |-> s_found], s_max_posts)
\* the malformed part is reached unless the loop broke before it
Raised(r) == r.status = "200" /\ r.malformed /\ Len(Processed(r).urls) < s_max_posts

\* an iteration of `for i, keyword in enumerate(keywords, 1)` gets as far as
\* its request: a keyword is left, the quota is unmet, no skip is advised
KeywordReached ==
    /\ pc = "search_loop"
    /\ s_index <= Len(keywords.list)
    /\ ~SearchQuotaReached(s_post_urls, s_max_posts)
    /\ ~SkipAdvised(SearchController(consecutive_failures))

\* what that iteration does when its request is answered by r
KeywordStep(r) ==
    LET done == Processed(r)
        raised == r.status = "200" /\ r.malformed /\ Len(done.urls) < s_max_posts
        \* the keyword's search failed: exception, malformed payload, other status
        failed == r.status \in {"other", "raise"} \/ raised
    IN /\ s_requests' = s_requests + 1
       /\ s_index' = AdvanceKeyword(s_index, r.status)
       /\ IF r.status = "200"
          THEN /\ s_post_urls' = done.urls
               /\ s_found' = done.ids
               /\ consecutive_failures' =
                    IF raised
                    THEN RecordOtherError(RecordSuccess(consecutive_failures))
                    ELSE RecordSuccess(consecutive_failures)
          ELSE /\ UNCHANGED <<s_post_urls, s_found>>
               /\ consecutive_failures' =
                    IF r.status = "429"
                    THEN RecordRateLimited(consecutive_failures)
                    ELSE RecordOtherError(consecutive_failures)
       /\ pc' = AfterKeyword(failed)
       /\ UNCHANGED <<restVars, argVars, coordVars, calls, trVars, s_max_posts>>

\* the keyword loop ends (exhausted, quota reached or skip advised)
SearchLoopEndStep ==
    /\ pc = "search_loop"
    /\ \/ s_index > Len(keywords.list)
       \/ SearchQuotaReached(s_post_urls, s_max_posts)
       \/ SkipAdvised(SearchController(consecutive_failures))
    /\ pc' = "search_return"
    /\ UNCHANGED <<restVars, argVars, coordVars, calls, consecutive_failures, trVars, sVars>>

SearchStart == SearchStartStep /\ UNCHANGED traceVars
SearchKeyword ==
    /\ KeywordReached
    /\ \E r \in SearchResponses : KeywordStep(r)
    /\ UNCHANGED traceVars
SearchLoopEnd == SearchLoopEndStep /\ UNCHANGED traceVars

\* the same steps, traced
SearchStartTraced ==
    /\ SearchStartStep
    /\ s_log' = IF NoKeywords(keywords) THEN <<>> ELSE <<"should_skip_strategy">>
    /\ UNCHANGED s_response

SearchKeywordTraced ==
    /\ KeywordReached
    /\ \E r \in SearchResponses :
          /\ KeywordStep(r)
          /\ s_log' = RequestPrelude \o OutcomeEvents(r, Raised(r))
          /\ s_response' = r

SearchLoopEndTraced ==
    /\ SearchLoopEndStep
    /\ s_log' = IF \/ s_index > Len(keywords.list)
                   \/ SearchQuotaReached(s_post_urls, s_max_posts)
                THEN <<>> ELSE <<"should_skip_strategy">>
    /\ s_response' = NoResponse

\* `return post_urls` and the coordinator's merge of search_posts
SearchReturn ==
    /\ pc = "search_return"
    /\ search_posts' = s_post_urls
    /\ LET m == MergeFallback(s_post_urls,
                    [urls |-> all_post_urls, ids |-> collected_ids], max_posts) IN
       /\ all_post_urls' = m.urls
       /\ collected_ids' = m.ids
    /\ pc' = "done"
    /\ UNCHANGED <<restVars, traceVars, argVars, remaining, primary_posts, time_range_posts, calls,
                   consecutive_failures, trVars, sVars>>

Next ==
    \/ FetchPrimary
    \/ DeficitFound
    \/ QuotaMetByPrimary
    \/ CallTimeRange
    \/ SkipTimeRange
    \/ TimeRangeDefaults
    \/ TimeRangeWindow
    \/ TimeRangeReturn
    \/ MergeTimeRange
    \/ CallSearch
    \/ SkipSearch
    \/ SearchStart
    \/ SearchKeyword
    \/ SearchLoopEnd
    \/ SearchReturn

Spec == Init /\ [][Next]_vars

\* the value fetch_subreddit_posts returns
Returned == pc = "done"

\* ------------------------------------------------------------------ claims
StrategyNames == [i \in 1..Len(calls) |-> calls[i].strategy]
Called(strategy) == \E i \in 1..Len(calls) : calls[i].strategy = strategy
\* a strategy other than the primary is being invoked in this step
FallbackInvoked == Len(calls) >= 1 /\ Len(calls') = Len(calls) + 1

\* C1: the list fetch_subreddit_posts returns holds no post id twice,
\* whatever lists (with repeated or already collected ids) the strategies return.
C1_NoDuplicateIds == Returned => NoDuplicateIds(all_post_urls)

C1_Witness ==
    /\ Returned
    /\ ~NoDuplicateIds(primary_posts)
    /\ IdsOf(time_range_posts) \cap IdsOf(primary_posts) /= {}
    /\ IdsOf(search_posts) \cap IdsOf(time_range_posts) /= {}
    /\ Len(all_post_urls) >= 2

C3_PrimaryFillsQuota ==
    (Returned /\ Cardinality(IdsOf(primary_posts)) = max_posts)
        => /\ all_post_urls = primary_posts
           /\ StrategyNames = <<"primary">>
           /\ tr_requests = <<>>
           /\ s_requests = 0

C3_Witness ==
    /\ Returned
    /\ Cardinality(IdsOf(primary_posts)) = max_posts
    /\ max_posts >= 2
    /\ sort_type /= "top"
    /\ Truthy(keywords)

\* C4: when the primary strategy under-delivers, the coordinator's list after
\* the time-range strategy is the primary ids in primary order followed by
\* all time-range ids not already collected, in time-range order.
C4_PrimaryThenNewTimeRange ==
    (pc = "strategy3" /\ Called("time_range"))
        => LET NotInPrimary(c) == IdOf(c) \notin IdsOf(primary_posts) IN
           all_post_urls =
               MergePrimary(primary_posts, [urls |-> <<>>, ids |-> {}]).urls
                   \o SelectSeq(time_range_posts, NotInPrimary)

\* C5: a strategy after the primary is invoked only while the accumulated
\* number of unique candidates is below the quota.
C5_NoStrategyOnceQuotaMet ==
    [][FallbackInvoked => Len(all_post_urls) < max_posts]_vars

C5_Witness ==
    /\ Returned
    /\ Truthy(keywords)
    /\ StrategyNames = <<"primary", "time_range">>
    /\ Len(all_post_urls) = max_posts

\* C6: every strategy after the primary is called with max_posts equal to the
\* deficit at the time of the call, never with the original quota.
C6_FallbackGetsDeficit ==
    [][FallbackInvoked =>
          calls'[Len(calls')].quota = max_posts - Len(all_post_urls)]_vars

C6_Witness ==
    /\ Len(calls) = 3
    /\ calls[3].strategy = "search"
    /\ calls[3].quota < calls[2].quota
    /\ calls[2].quota < max_posts

\* C7: strategies run in the order primary, time-range, search; time-range
\* never with sort 'top', search never with keywords None or empty.
C7_FixedOrderAndSkips ==
    /\ StrategyNames \in {<<>>, <<"primary">>, <<"primary", "time_range">>,
                          <<"primary", "search">>,
                          <<"primary", "time_range", "search">>}
    /\ sort_type = "top" => ~Called("time_range")
    /\ ~Truthy(keywords) => ~Called("search")

C7_Witness ==
    /\ Returned
    /\ sort_type = "top"
    /\ StrategyNames = <<"primary", "search">>
    /\ s_requests > 0

\* C8: TimeRangeStrategy starts no per-window fetch once its running total
\* has reached max_posts.
C8_NoWindowAfterQuota ==
    [][Len(tr_requests') > Len(tr_requests) => Len(tr_post_urls) < tr_max_posts]_vars

C8_Witness ==
    /\ pc = "tr_merge"
    /\ Len(tr_requests) = 2
    /\ Len(tr_requests) < Len(tr_time_ranges)
    /\ Len(tr_post_urls) >= tr_max_posts

\* C9: each per-window PaginatedStrategy is asked for at most the remaining
\* deficit of the TimeRangeStrategy invocation.
C9_WindowQuotaWithinDeficit ==
    \A i \in 1..Len(tr_requests) :
        tr_requests[i].quota <= tr_requests[i].max_posts - tr_requests[i].have

\* C10: TimeRangeStrategy.fetch_posts returns at most max_posts candidates.
C10_TimeRangeWithinQuota ==
    pc = "tr_merge" => Len(time_range_posts) <= tr_max_posts

\* ------------------------------------- RedditScraper._filter_existing_posts
\* one iteration of `for i in range(0, len(post_urls), batch_size)`
FilterBatch ==
    /\ pc = "filter_loop"
    /\ filter.i <= Len(filter.post_urls)
    /\ filter' =
         [filter EXCEPT
            !.new_posts = @ \o NewOfBatch(BatchAt(filter.post_urls, filter.i,
                                                  filter.batch_size), filter.store),
            !.checks = @ \o ChecksOfBatch(BatchAt(filter.post_urls, filter.i,
                                                  filter.batch_size)),
            !.i = @ + filter.batch_size]
    /\ UNCHANGED <<scraper, run, traceVars, argVars, pc, coordVars, calls,
                   consecutive_failures, trVars, sVars>>

\* `return new_posts`
FilterReturn ==
    /\ pc = "filter_loop"
    /\ filter.i > Len(filter.post_urls)
    /\ pc' = "filter_return"
    /\ UNCHANGED <<restVars, traceVars, argVars, coordVars, calls,
                   consecutive_failures, trVars, sVars>>

\* ------------------------------------------------- RedditScraper.__init__
\* the object RedditScraper(target) creates: the target is parsed, the
\* components are created, the counters start at zero
ConstructedScraper(target) ==
    [target |-> target,
     is_user_mode |-> ParseTarget(target).is_user_mode,
     target_name |-> ParseTarget(target).target_name,
     scraped_count |-> 0]

Construct ==
    /\ pc = "new"
    /\ scraper' = ConstructedScraper(scraper.target)
    /\ consecutive_failures' = FreshRateState
    /\ pc' = "constructed"
    /\ UNCHANGED <<filter, run, traceVars, argVars, coordVars, calls,
                   trVars, sVars>>

\* ------------------------------------------------ strategies called directly
\* no fetch_subreddit_posts frame: its arguments and locals are not in play
NoCoordinator ==
    /\ max_posts = 1
    /\ sort_type = "top"
    /\ all_post_urls = <<>>
    /\ collected_ids = {}
    /\ remaining = 0
    /\ primary_posts = <<>>
    /\ time_range_posts = <<>>
    /\ search_posts = <<>>
    /\ calls = <<>>

NoSearch ==
    /\ s_max_posts = 0
    /\ s_post_urls = <<>>
    /\ s_found = {}
    /\ s_index = 1
    /\ s_requests = 0
    /\ s_log = <<>>
    /\ s_response = NoResponse

NoTimeRange ==
    /\ tr_arg = <<>>
    /\ tr_max_posts = 0
    /\ tr_time_ranges = <<>>
    /\ tr_post_urls = <<>>
    /\ tr_collected_ids = {}
    /\ tr_window = 1
    /\ tr_requests = <<>>

\* TimeRangeStrategy.fetch_posts(target, max_posts, time_ranges=...)
InitTimeRange ==
    /\ NoCoordinator
    /\ NoFilter
    /\ NoTarget
    /\ NoRun
    /\ NoSearch
    /\ keywords = [isNone |-> TRUE, list |-> <<>>]
    /\ pc = "tr_start"
    /\ consecutive_failures = 0
    /\ tr_arg \in TimeRangeInputs
    /\ tr_time_ranges = tr_arg
    /\ tr_max_posts \in 1..MaxQuota
    /\ tr_post_urls = <<>>
    /\ tr_collected_ids = {}
    /\ tr_window = 1
    /\ tr_requests = <<>>

NextTimeRange ==
    \/ TimeRangeDefaults
    \/ TimeRangeWindow
    \/ TimeRangeReturn

SpecTimeRange == InitTimeRange /\ [][NextTimeRange]_vars

\* SearchStrategy.fetch_posts(target, max_posts, keywords=...) on a rate
\* controller in any state
InitSearch ==
    /\ NoCoordinator
    /\ NoFilter
    /\ NoTarget
    /\ NoRun
    /\ NoTimeRange
    /\ pc = "search_start"
    /\ keywords \in KeywordInputs
    /\ consecutive_failures \in 0..SkipThreshold
    /\ s_max_posts \in 1..MaxQuota
    /\ s_post_urls = <<>>
    /\ s_found = {}
    /\ s_index = 1
    /\ s_requests = 0
    /\ s_log = <<>>
    /\ s_response = NoResponse

NextSearch ==
    \/ SearchStartTraced
    \/ SearchKeywordTraced
    \/ SearchLoopEndTraced

SpecSearch == InitSearch /\ [][NextSearch]_vars

\* a call that has started keeps running until it returns
SpecSearchLive == SpecSearch /\ WF_vars(NextSearch)

\* _filter_existing_posts(post_urls, batch_size) over a post store
InitFilter ==
    /\ NoCoordinator
    /\ NoTimeRange
    /\ NoSearch
    /\ NoTarget
    /\ NoRun
    /\ keywords = [isNone |-> TRUE, list |-> <<>>]
    /\ consecutive_failures = 0
    /\ pc = "filter_loop"
    /\ filter \in [post_urls : FilterInputs, batch_size : 1..MaxBatchSize,
                    store : SUBSET FilterIds, i : {1}, new_posts : {<<>>},
                    checks : {<<>>}]

NextFilter ==
    \/ FilterBatch
    \/ FilterReturn

SpecFilter == InitFilter /\ [][NextFilter]_vars

\* RedditScraper(target) for every target string
InitTarget ==
    /\ NoCoordinator
    /\ NoTimeRange
    /\ NoSearch
    /\ NoFilter
    /\ NoRun
    /\ keywords = [isNone |-> TRUE, list |-> <<>>]
    /\ consecutive_failures = 0
    /\ pc = "new"
    /\ scraper \in {[target |-> t, is_user_mode |-> FALSE, target_name |-> t,
                       scraped_count |-> 0] : t \in Targets}

NextTarget == Construct

SpecTarget == InitTarget /\ [][NextTarget]_vars

\* fetch_subreddit_posts with any quota a caller can pass, scrape handing its
\* max_posts on unchanged
InitAnyQuota ==
    /\ max_posts \in (0 - MaxNegative)..MaxQuota
    /\ InitLocals

SpecAnyQuota == InitAnyQuota /\ [][Next]_vars

\* ------------------------------------------------------ RedditScraper.scrape
ScrapeTargets == {<<"r", "name">>, <<"u", "name">>}

\* the progress_callback argument: None, a callable that returns, a callable
\* that raises
CallbackKinds == {"none", "ok", "raises"}

\* what a coordinator hands back for a quota: at most quota candidates, no id
\* twice
HarvestResults(quota) ==
    {s \in SeqsUpTo(Candidates("primary"), Min(quota, NumIds)) : NoDuplicateIds(s)}

\* a harvest: its result and whether it issued a request; candidates come
\* from responses only
HarvestOutcomes(quota) ==
    {h \in [post_urls : HarvestResults(quota), requested : BOOLEAN] :
        h.post_urls /= <<>> => h.requested}

\* scrape_post fails; scrape_post succeeds and save_post stores the post;
\* scrape_post succeeds and save_post answers false
DetailOutcomes == {"fetch_failed", "saved", "save_failed"}

\* variant: the exception of the callback leaves the loop
AfterCallbackPropagates(callback) ==
    IF callback = "raises" THEN "abort" ELSE "continue"
\* `try: progress_callback(...)  except: pass`
AfterCallback(callback) == "continue"

\* variant: the module keeps the counters of the scraper it used before
ScraperForShared(target, previous) ==
    [ConstructedScraper(target) EXCEPT !.scraped_count = previous.scraped_count]
\* `scraper = RedditScraper(target)` of scrape_reddit
ScraperFor(target, previous) == ConstructedScraper(target)

\* variant: the candidates go to the detail loop unfiltered
FilteredForScrapeNot(post_urls, store) == post_urls
\* `post_urls = self._filter_existing_posts(post_urls)`
FilteredForScrape(post_urls, store) ==
    FilterExistingPosts(post_urls, DefaultBatchSize, store)

\* variant: both coordinators are asked
DispatchBoth(is_user_mode) ==
    <<[coordinator |-> "fetch_user_posts",
       args |-> {"username", "max_posts", "progress_callback"}],
      [coordinator |-> "fetch_subreddit_posts",
       args |-> {"subreddit", "max_posts", "sort_type", "progress_callback",
                 "keywords"}]>>
\* `if self.is_user_mode: ... else: ...`: the coordinator calls of Step 1
Dispatch(is_user_mode) ==
    IF is_user_mode
    THEN <<[coordinator |-> "fetch_user_posts",
            args |-> {"username", "max_posts", "progress_callback"}]>>
    ELSE <<[coordinator |-> "fetch_subreddit_posts",
            args |-> {"subreddit", "max_posts", "sort_type", "progress_callback",
                      "keywords"}]>>

\* variant: an empty list goes on to the detail loop
AllExistNever(kept) == FALSE
\* `if len(post_urls) == 0` after the filter
AllExist(kept) == kept = <<>>

\* variant: the loop does not look at the counter
TargetReachedNever(scraped_count, quota) == FALSE
\* `if self.scraped_count >= max_posts: break`
TargetReached(scraped_count, quota) == scraped_count >= quota

\* variant: the sleep is part of the success branch
DelayDueOnSuccess(i, n, success) == i < n /\ success
\* `if i < len(post_urls)` at the end of the loop body
DelayDue(i, n, success) == i < n

\* the state in which a scrape call starts
NewCall(r, fresh, sc, failures, quota, callback) ==
    [calls |-> r.calls + 1, fresh |-> fresh,
     dirty |-> (sc.scraped_count > 0 /\ failures > 0),
     max_posts |-> quota, callback |-> callback, post_urls |-> <<>>, i |-> 1,
     requested |-> FALSE, dispatched |-> <<>>, existing |-> {},
     fetched |-> <<>>, saved |-> 0, events |-> <<>>,
     status |-> "running", result_count |-> 0, store |-> r.store]

\* one iteration of the detail loop with outcome o, below the `break` test
DetailIteration(sc, r, o) ==
    LET post_id == IdOf(r.post_urls[r.i])
        success == o \in {"saved", "save_failed"}
        count == IF success THEN sc.scraped_count + 1 ELSE sc.scraped_count
        invoked == success /\ r.callback /= "none"
        after == IF invoked THEN AfterCallback(r.callback) ELSE "continue"
        sleeps == after = "continue" /\ DelayDue(r.i, Len(r.post_urls), success)
    IN [scraper |-> [sc EXCEPT !.scraped_count = count],
        run |-> [r EXCEPT
                   !.fetched = Append(@, post_id),
                   !.store = IF o = "saved" THEN @ \cup {post_id} ELSE @,
                   !.saved = IF o = "saved" THEN @ + 1 ELSE @,
                   !.events = @ \o <<"fetch">> \o
                                IF sleeps THEN <<"delay">> ELSE <<>>,
                   !.i = IF after = "continue" THEN @ + 1 ELSE @,
                   !.status = IF after = "continue" THEN @ ELSE "raised"],
        pc |-> IF after = "continue" THEN "detail" ELSE "scrape_return"]

scrapeFrame == <<filter, traceVars, argVars, coordVars, calls, trVars, sVars>>

\* scrape_reddit(target, max_posts, ..., progress_callback): a scraper is
\* constructed and its scrape is called
ScrapeReddit ==
    /\ pc \in {"module", "scrape_return"}
    /\ run.calls < MaxCalls
    /\ \E target \in ScrapeTargets, quota \in 1..MaxQuota, callback \in CallbackKinds :
         /\ scraper' = ScraperFor(target, scraper)
         /\ run' = NewCall(run, TRUE, scraper, consecutive_failures, quota, callback)
    /\ consecutive_failures' = FreshRateState
    /\ pc' = "harvest"
    /\ UNCHANGED scrapeFrame

\* scrape is called again, with the same arguments, on the scraper that
\* served the previous call
ScrapeAgain ==
    /\ pc = "scrape_return"
    /\ run.calls < MaxCalls
    /\ run' = NewCall(run, FALSE, scraper, consecutive_failures, run.max_posts,
                      run.callback)
    /\ pc' = "harvest"
    /\ UNCHANGED <<scraper, consecutive_failures, scrapeFrame>>

\* Step 1: the coordinator of the scraper's mode harvests;
\* `if not post_urls: return {'status': 'error', ...}`
Harvest ==
    /\ pc = "harvest"
    /\ \E h \in HarvestOutcomes(run.max_posts), f \in PaginatedStreaks :
         /\ run' = [run EXCEPT
                      !.post_urls = h.post_urls,
                      !.requested = h.requested,
                      !.dispatched = Dispatch(scraper.is_user_mode),
                      !.status = IF h.post_urls = <<>> THEN "error" ELSE @]
         /\ consecutive_failures' = IF h.requested THEN f ELSE consecutive_failures
         /\ pc' = IF h.post_urls = <<>> THEN "scrape_return" ELSE "filter"
    /\ UNCHANGED <<scraper, scrapeFrame>>

\* Step 2: the posts the store holds are dropped;
\* `if len(post_urls) == 0: return {'status': 'success', 'scraped_count': 0}`
FilterExisting ==
    /\ pc = "filter"
    /\ LET kept == FilteredForScrape(run.post_urls, run.store)
       IN /\ run' = [run EXCEPT
                       !.existing = ExistingIds(run.post_urls, run.store),
                       !.post_urls = kept,
                       !.status = IF AllExist(kept) THEN "success" ELSE @]
          /\ pc' = IF AllExist(kept) THEN "scrape_return" ELSE "detail"
    /\ UNCHANGED <<scraper, consecutive_failures, scrapeFrame>>

\* Step 3: one candidate of the detail loop
DetailStep ==
    /\ pc = "detail"
    /\ run.i <= Len(run.post_urls)
    /\ ~TargetReached(scraper.scraped_count, run.max_posts)
    /\ \E o \in DetailOutcomes :
         /\ scraper' = DetailIteration(scraper, run, o).scraper
         /\ run' = DetailIteration(scraper, run, o).run
         /\ pc' = DetailIteration(scraper, run, o).pc
    /\ UNCHANGED <<consecutive_failures, scrapeFrame>>

\* the loop is exhausted or left by `break`; the export is tried and
\* `return {'status': 'success', 'scraped_count': self.scraped_count, ...}`
DetailEnd ==
    /\ pc = "detail"
    /\ \/ run.i > Len(run.post_urls)
       \/ TargetReached(scraper.scraped_count, run.max_posts)
    /\ run' = [run EXCEPT !.status = "success",
                          !.result_count = scraper.scraped_count]
    /\ pc' = "scrape_return"
    /\ UNCHANGED <<scraper, consecutive_failures, scrapeFrame>>

InitScrape ==
    /\ NoCoordinator
    /\ NoTimeRange
    /\ NoSearch
    /\ NoFilter
    /\ NoTarget
    /\ keywords = [isNone |-> TRUE, list |-> <<>>]
    /\ consecutive_failures = 0
    /\ pc = "module"
    /\ \E store \in SUBSET Ids :
         run = [calls |-> 0, fresh |-> FALSE,
                dirty |-> FALSE, max_posts |-> 0, callback |-> "none", post_urls |-> <<>>,
                i |-> 1, requested |-> FALSE, dispatched |-> <<>>,
                existing |-> {}, fetched |-> <<>>, saved |-> 0, events |-> <<>>,
                status |-> "none", result_count |-> 0,
                store |-> store]

NextScrape ==
    \/ ScrapeReddit
    \/ ScrapeAgain
    \/ Harvest
    \/ FilterExisting
    \/ DetailStep
    \/ DetailEnd

SpecScrape == InitScrape /\ [][NextScrape]_vars

\* C11: TimeRangeStrategy visits the windows in the order of the supplied
\* list (day, week, month, year, all when none is supplied); in its result
\* every candidate of an earlier window precedes every candidate first seen
\* in a later window, and no id occurs twice.
C11_WindowOrder ==
    LET supplied == IF tr_arg = <<>>
                    THEN <<"day", "week", "month", "year", "all">>
                    ELSE tr_arg
        WindowAt(c) == CHOOSE k \in 1..Len(supplied) : supplied[k] = c[1]
    IN /\ Len(tr_requests) <= Len(supplied)
       /\ \A i \in 1..Len(tr_requests) : tr_requests[i].window = supplied[i]
       /\ \A i, j \in 1..Len(tr_post_urls) :
            i < j => WindowAt(tr_post_urls[i]) <= WindowAt(tr_post_urls[j])
       /\ NoDuplicateIds(tr_post_urls)
       /\ pc = "tr_merge" => time_range_posts = tr_post_urls

C11_Witness ==
    /\ pc = "tr_merge"
    /\ tr_arg = <<>>
    /\ Len(tr_requests) = 5
    /\ Len(time_range_posts) >= 2
    /\ time_range_posts[1][1] /= time_range_posts[2][1]

\* a request was issued by the step
Requested == s_requests' > s_requests

IsPrefix(a, b) == Len(a) <= Len(b) /\ SubSeq(b, 1, Len(a)) = a

\* a is b with some elements left out, the others in b's order
RECURSIVE IsSubsequence(_, _)
IsSubsequence(a, b) ==
    IF a = <<>> THEN TRUE
    ELSE IF b = <<>> THEN FALSE
    ELSE IF Head(a) = Head(b) THEN IsSubsequence(Tail(a), Tail(b))
    ELSE IsSubsequence(a, Tail(b))

\* C12: SearchStrategy.fetch_posts called with keywords None or [] returns
\* the empty list: it never enters the keyword loop, issues no request and
\* calls no method of the rate controller.
C12_NoKeywordsNoRequest ==
    (keywords.isNone \/ keywords.list = <<>>) =>
        /\ pc \in {"search_start", "search_return"}
        /\ s_post_urls = <<>>
        /\ s_requests = 0
        /\ s_log = <<>>
        /\ s_response = NoResponse

C12_Witness ==
    /\ pc = "search_return"
    /\ ~keywords.isNone
    /\ keywords.list = <<>>
    /\ consecutive_failures = 0

\* C13: when should_skip_strategy() is true as fetch_posts starts with a
\* non-empty keyword list, the start step goes straight to the return with
\* an empty result and no request issued.
C13_SkipAtStart ==
    [][(/\ pc = "search_start"
        /\ ~keywords.isNone
        /\ keywords.list /= <<>>
        /\ ShouldSkipStrategy(consecutive_failures))
       => (/\ pc' = "search_return"
           /\ s_post_urls' = <<>>
           /\ s_requests' = 0
           /\ "request" \notin {s_log'[i] : i \in 1..Len(s_log')})]_vars

C13_Witness ==
    /\ pc = "search_return"
    /\ Len(keywords.list) = MaxKeywords
    /\ s_index = 1
    /\ s_log = <<"should_skip_strategy">>
    /\ s_post_urls = <<>>
    /\ s_requests = 0

\* C14: no single keyword adds more than max(1, quota // len(keywords))
\* candidates to the result.
C14_PerKeywordShare ==
    [][Requested =>
         Len(s_post_urls') - Len(s_post_urls) <= PostsPerKeyword(s_max_posts, keywords)]_vars

\* the events that mark a keyword's search as failed
FailureEvents == {"status_other", "raise", "malformed"}
FailedIn(log) == \E i \in 1..Len(log) : log[i] \in FailureEvents

\* C15: a keyword whose search fails (exception, malformed payload, status
\* other than 200 and 429) is recorded with record_other_error() and the loop
\* moves to the next keyword with the candidates collected so far; and after
\* a failure, while a keyword is left, the quota is unmet and no skip is
\* advised, the next step issues the next keyword's request.
C15_FailureIsolated ==
    [][/\ (Requested /\ FailedIn(s_log')) =>
             /\ s_log'[Len(s_log')] = "record_other_error"
             /\ pc' = "search_loop"
             /\ s_index' = s_index + 1
             /\ IsPrefix(s_post_urls, s_post_urls')
       /\ (/\ FailedIn(s_log)
           /\ pc = "search_loop"
           /\ s_index <= Len(keywords.list)
           /\ Len(s_post_urls) < s_max_posts
           /\ ~ShouldSkipStrategy(consecutive_failures)) =>
             /\ Requested
             /\ s_index' = s_index + 1]_vars

C15_Witness ==
    /\ pc = "search_loop"
    /\ FailedIn(s_log)
    /\ s_response.malformed
    /\ Len(s_post_urls) = 1
    /\ s_index = 2
    /\ s_index <= Len(keywords.list)
    /\ Len(s_post_urls) < s_max_posts
    /\ ~ShouldSkipStrategy(consecutive_failures)

\* C16: within one invocation no id is emitted twice, the result never
\* exceeds max_posts, and each keyword appends to what earlier keywords
\* collected a selection of its response's posts in the response's order.
C16_SearchDedupOrder ==
    [][/\ NoDuplicateIds(s_post_urls')
       /\ Len(s_post_urls') <= s_max_posts
       /\ IsPrefix(s_post_urls, s_post_urls')
       /\ IsSubsequence(SubSeq(s_post_urls', Len(s_post_urls) + 1, Len(s_post_urls')),
                        s_response'.posts)]_vars

C16_Witness ==
    /\ s_index = 3
    /\ s_max_posts = MaxQuota
    /\ Len(s_post_urls) = 2
    /\ s_post_urls[1] /= s_post_urls[2]
    /\ s_response.posts = <<s_post_urls[1], s_post_urls[2]>>
    /\ s_log = RequestPrelude \o <<"status_200", "record_success">>

\* C17: in the loop iteration that issues a request, the request is
\* immediately preceded by get_delay() and the sleep, and nothing is
\* requested twice in one iteration.
C17_DelayBeforeRequest ==
    [][Requested =>
         /\ s_requests' = s_requests + 1
         /\ \E i \in 3..Len(s_log') : s_log'[i] = "request"
         /\ \A i \in 1..Len(s_log') :
              s_log'[i] = "request" =>
                 /\ i >= 3
                 /\ s_log'[i - 2] = "get_delay"
                 /\ s_log'[i - 1] = "sleep"
                 /\ \A j \in 1..Len(s_log') : s_log'[j] = "request" => j = i]_vars

C17_Witness ==
    /\ s_requests = MaxKeywords
    /\ s_response.status = "429"
    /\ s_log = RequestPrelude \o <<"status_429", "handle_rate_limit">>

\* the candidates of a list whose id the store does not hold, in list order
NotInStore(post_urls, store) ==
    LET Absent(c) == IdOf(c) \notin store
    IN SelectSeq(post_urls, Absent)

\* C18: the existing-post filter returns exactly the candidates whose id the
\* post store reports as not existing, in their original relative order;
\* while it runs, new_posts is that selection of the batches done so far.
C18_FilterKeepsNewInOrder ==
    /\ pc = "filter_loop" =>
         filter.new_posts = NotInStore(SubSeq(filter.post_urls, 1, Min(filter.i - 1, Len(filter.post_urls))),
                                  filter.store)
    /\ pc = "filter_return" =>
         /\ filter.new_posts = NotInStore(filter.post_urls, filter.store)
         /\ IsSubsequence(filter.new_posts, filter.post_urls)
         /\ \A k \in 1..Len(filter.post_urls) :
              (IdOf(filter.post_urls[k]) \notin filter.store)
                 <=> (\E j \in 1..Len(filter.new_posts) : filter.new_posts[j] = filter.post_urls[k])

\* 5 candidates, the 2nd and the 4th existing, filtered in batches of 2
C18_Witness ==
    /\ pc = "filter_return"
    /\ filter.batch_size = 2
    /\ Len(filter.post_urls) = 5
    /\ Cardinality(IdsOf(filter.post_urls) \cap filter.store) = 2
    /\ IdOf(filter.post_urls[2]) \in filter.store
    /\ IdOf(filter.post_urls[4]) \in filter.store
    /\ filter.new_posts = <<filter.post_urls[1], filter.post_urls[3], filter.post_urls[5]>>

\* a name the platform can be asked for: one segment, not empty
NameValid(name) == Len(name) = 1 /\ name[1] /= ""

\* C19: a scraper is constructed only for a target that normalizes to a
\* mode and a name (non-empty, without "/"); any other target is rejected
\* and never taken as a subreddit named by the raw string.
C19_InvalidTargetRejected ==
    pc = "constructed" => NameValid(scraper.target_name)

\* C20: with max_posts <= 0 no strategy is invoked and the call does not
\* return normally.
C20_NonPositiveQuotaRejected ==
    max_posts <= 0 => (calls = <<>> /\ ~Returned)

\* C23: the shorthand r/NAME gives (Subreddit, NAME), u/NAME and user/NAME
\* give (User, NAME), a URL reddit.com/r/NAME/... gives (Subreddit, NAME), a
\* URL reddit.com/user/NAME/... gives (User, NAME), a bare NAME gives
\* (Subreddit, NAME), for every non-empty NAME without "/".
C23_Normalization ==
    LET t == scraper.target
        Gives(user, name) ==
            scraper.is_user_mode = user /\ scraper.target_name = <<name>>
    IN pc = "constructed" =>
         /\ (Len(t) = 2 /\ t[1] = "r" /\ t[2] /= "") => Gives(FALSE, t[2])
         /\ (Len(t) = 2 /\ t[1] \in {"u", "user"} /\ t[2] /= "") => Gives(TRUE, t[2])
         /\ (Len(t) >= 3 /\ t[1] = "reddit.com" /\ t[2] = "r" /\ t[3] /= "")
               => Gives(FALSE, t[3])
         /\ (Len(t) >= 3 /\ t[1] = "reddit.com" /\ t[2] = "user" /\ t[3] /= "")
               => Gives(TRUE, t[3])
         /\ (Len(t) = 1 /\ t[1] /= "") => Gives(FALSE, t[1])

\* C26: fetch_posts issues one request per keyword it reaches, never more
\* than len(keywords) in all; a keyword answered by 429 goes to the
\* rate-limit handling and the loop moves on to the next keyword; and the
\* call returns.
C26_OneRequestPerKeyword ==
    /\ [](s_requests = s_index - 1 /\ s_requests <= Len(keywords.list))
    /\ [][Requested =>
            /\ s_index' = s_index + 1
            /\ s_response'.status = "429" =>
                 s_log'[Len(s_log')] = "handle_rate_limit"]_vars
    /\ <>(pc = "search_return")

C26_Witness ==
    /\ Len(keywords.list) = MaxKeywords
    /\ s_index = MaxKeywords + 1
    /\ s_requests = MaxKeywords
    /\ s_response.status = "429"
    /\ consecutive_failures = 1

\* C27: once should_skip_strategy() is true or the result holds max_posts
\* candidates, the keyword loop issues no further request: the next step is
\* the return, with the candidates collected so far.
C27_StopsAtQuotaOrSkip ==
    [][(/\ pc = "search_loop"
        /\ \/ ShouldSkipStrategy(consecutive_failures)
           \/ Len(s_post_urls) >= s_max_posts)
       => (/\ pc' = "search_return"
           /\ s_requests' = s_requests
           /\ s_post_urls' = s_post_urls)]_vars

C27_Witness ==
    /\ pc = "search_return"
    /\ Len(keywords.list) = MaxKeywords
    /\ s_index = MaxKeywords
    /\ s_requests = MaxKeywords - 1
    /\ Len(s_post_urls) = s_max_posts
    /\ ~ShouldSkipStrategy(consecutive_failures)

\* C28: a failing keyword leaves the candidates collected before it where
\* they are; of a page with a malformed part, the new candidates that
\* precede that part are kept as well; the return does not change the list.
C28_ErrorKeepsCollected ==
    [][/\ (Requested /\ FailedIn(s_log')) =>
             /\ IsPrefix(s_post_urls, s_post_urls')
             /\ s_response'.status /= "200" => s_post_urls' = s_post_urls
             /\ s_response'.status = "200" =>
                  \A k \in 1..Len(s_response'.posts) :
                      IdOf(s_response'.posts[k]) \in IdsOf(s_post_urls')
       /\ pc' = "search_return" => s_post_urls' = s_post_urls]_vars

C28_Witness ==
    /\ pc = "search_loop"
    /\ s_index = 3
    /\ s_response.status = "200"
    /\ s_response.malformed
    /\ FailedIn(s_log)
    /\ Len(s_post_urls) = 2
    /\ s_response.posts = <<s_post_urls[2]>>

\* what the strategy reports to the rate controller about a request
OutcomeReports == {"record_success", "handle_rate_limit", "record_other_error"}

\* C29: a loop iteration that issued a request reported exactly one outcome
\* to the rate controller.
C29_OneOutcomePerRequest ==
    (\E i \in 1..Len(s_log) : s_log[i] = "request") =>
        Cardinality({i \in 1..Len(s_log) : s_log[i] \in OutcomeReports}) = 1

\* C30: the filter's result is the same for every batch size, is the
\* unbatched selection of the candidates whose id the store does not hold,
\* and filtering the result again over the same store gives it back.
C30_BatchSizeIndependent ==
    pc = "filter_return" =>
        /\ \A b \in 1..(MaxCandidates + 1) :
             FilterExistingPosts(filter.post_urls, b, filter.store) = filter.new_posts
        /\ filter.new_posts = NotInStore(filter.post_urls, filter.store)
        /\ FilterExistingPosts(filter.new_posts, filter.batch_size, filter.store)
             = filter.new_posts

C30_Witness ==
    /\ pc = "filter_return"
    /\ filter.batch_size = MaxBatchSize
    /\ Len(filter.post_urls) = MaxCandidates
    /\ Len(filter.new_posts) = 2
    /\ IdOf(filter.post_urls[MaxBatchSize]) \notin filter.store
    /\ IdOf(filter.post_urls[MaxBatchSize + 1]) \notin filter.store

\* C21: a harvest that issued requests and found no candidate is reported
\* as a success with an empty result; the status is 'error' only when no
\* request was issued.
C21_ErrorOnlyWithoutRequest ==
    (pc = "scrape_return" /\ run.status = "error") => ~run.requested

\* a detail-loop iteration seen by the caller: everything but the callback
Observed(d) ==
    [scraper |-> d.scraper, pc |-> d.pc, run |-> [d.run EXCEPT !.callback = "any"]]

\* C22: with a callback that raises, every iteration of the detail loop
\* handles its post, counts it and continues exactly as with a callback
\* that returns, and scrape never ends by the callback's exception.
C22_CallbackNeverAborts ==
    /\ [](run.status /= "raised")
    /\ [][(pc = "detail" /\ pc' = "detail" /\ run.callback = "raises") =>
            \E o \in DetailOutcomes :
               /\ Observed([scraper |-> scraper', run |-> run', pc |-> pc'])
                    = Observed(DetailIteration(scraper,
                                 [run EXCEPT !.callback = "ok"], o))
               /\ run'.callback = run.callback]_vars
    /\ [][(pc = "detail" /\ run.callback /= "none" /\ pc' = "scrape_return")
            => (/\ run'.status = "success"
                /\ run'.result_count = scraper.scraped_count
                /\ \/ run.i > Len(run.post_urls)
                   \/ scraper.scraped_count >= run.max_posts)]_vars

C22_Witness ==
    /\ pc = "scrape_return"
    /\ run.callback = "raises"
    /\ run.status = "success"
    /\ Len(run.fetched) = 2
    /\ run.result_count = 2
    /\ run.saved = 1

\* C24: the first scrape(max_posts=N) of a scraper just constructed never
\* counts more than N posts, hands no id to the post fetcher twice, and
\* hands it only ids of candidates the filter kept, none of which the
\* store's existence check reported.
C24_FetchesWithinFiltered ==
    run.fresh =>
        /\ scraper.scraped_count <= run.max_posts
        /\ \A i, j \in 1..Len(run.fetched) :
              i /= j => run.fetched[i] /= run.fetched[j]
        /\ \A i \in 1..Len(run.fetched) :
              /\ run.fetched[i] \notin run.existing
              /\ run.fetched[i] = IdOf(run.post_urls[i])

C24_Witness ==
    /\ pc = "scrape_return"
    /\ run.fresh
    /\ run.status = "success"
    /\ run.max_posts = 2
    /\ run.existing /= {}
    /\ Len(run.fetched) = 1
    /\ scraper.scraped_count = 1

\* C25: every scrape_reddit call starts on a scraper of its own, with
\* scraped_count 0 and the rate state of a new controller, whatever the
\* previous call left behind.
C25_FreshPerCall ==
    (pc = "harvest" /\ run.fresh) =>
        /\ scraper.scraped_count = 0
        /\ consecutive_failures = FreshRateState
        /\ run.fetched = <<>>

C25_Witness ==
    /\ pc = "harvest"
    /\ run.fresh
    /\ run.calls = 2
    /\ run.dirty

\* C31: the existing-post filter asks the store once for every candidate of
\* its input, in the input's order, and never changes what the store holds.
C31_FilterOnlyReads ==
    /\ [](pc = "filter_return" => filter.checks = IdSeq(filter.post_urls))
    /\ [][filter'.store = filter.store]_vars

C31_Witness ==
    /\ pc = "filter_return"
    /\ Len(filter.post_urls) = MaxCandidates
    /\ filter.batch_size = MaxBatchSize
    /\ Len(filter.checks) = MaxCandidates
    /\ Len(filter.new_posts) = 1
    /\ filter.store /= {}

\* C32: the strategies of one session report to one rate controller: when
\* the coordinator invokes the search strategy while the failure streak the
\* primary and time-range strategies left makes should_skip_strategy() true,
\* the search strategy returns without a request and without a candidate.
C32_SharedStreakSkipsSearch ==
    [][(pc = "search_start" /\ ShouldSkipStrategy(consecutive_failures)) =>
          /\ pc' = "search_return"
          /\ s_requests' = 0
          /\ s_post_urls' = <<>>
          /\ consecutive_failures' = consecutive_failures]_vars

C32_Witness ==
    /\ Returned
    /\ Called("time_range")
    /\ Called("search")
    /\ Len(keywords.list) = MaxKeywords
    /\ ShouldSkipStrategy(consecutive_failures)
    /\ s_requests = 0
    /\ search_posts = <<>>
    /\ Len(all_post_urls) < max_posts

\* C33: when the harvest found candidates and the store holds all of them,
\* scrape returns status 'success' with scraped_count 0 and scrape_post was
\* not called.
C33_AllExistingIsSuccess ==
    (pc = "scrape_return" /\ run.existing /= {} /\ run.post_urls = <<>>) =>
        /\ run.status = "success"
        /\ run.result_count = 0
        /\ run.fetched = <<>>
        /\ run.events = <<>>

C33_Witness ==
    /\ pc = "scrape_return"
    /\ Cardinality(run.existing) = 2
    /\ run.post_urls = <<>>
    /\ run.status = "success"
    /\ ~run.fresh
    /\ scraper.scraped_count > 0

\* C34: a scrape call asks one coordinator, the one of the scraper's mode:
\* fetch_user_posts without sort_type and keywords in user mode,
\* fetch_subreddit_posts otherwise; the mode of a scraper changes neither
\* during a call nor from one call on it to the next.
C34_OneCoordinatorPerCall ==
    /\ [](/\ Len(run.dispatched) <= 1
          /\ pc \in {"filter", "detail", "scrape_return"} =>
               /\ Len(run.dispatched) = 1
               /\ run.dispatched[1].coordinator =
                    IF scraper.is_user_mode THEN "fetch_user_posts"
                    ELSE "fetch_subreddit_posts"
               /\ scraper.is_user_mode =>
                    run.dispatched[1].args \cap {"sort_type", "keywords"} = {})
    /\ [][(run'.calls = run.calls /\ pc /= "module") \/ ~run'.fresh =>
            /\ scraper'.is_user_mode = scraper.is_user_mode
            /\ scraper'.target_name = scraper.target_name]_vars

C34_Witness ==
    /\ pc = "scrape_return"
    /\ run.calls = 2
    /\ ~run.fresh
    /\ scraper.is_user_mode
    /\ run.status = "success"
    /\ Len(run.fetched) = 1

\* C35: scraped_count of a scraper is carried from one scrape call to the
\* next and never exceeds the quota of the calls; once it has reached the
\* quota, the calls on that scraper call scrape_post no more.
C35_CounterCarriedOver ==
    /\ [](scraper.scraped_count <= run.max_posts)
    /\ [][(run'.calls = run.calls + 1 /\ ~run'.fresh) =>
             /\ scraper'.scraped_count = scraper.scraped_count
             /\ run'.max_posts = run.max_posts]_vars
    /\ [][(/\ pc \in {"harvest", "filter", "detail"}
           /\ scraper.scraped_count >= run.max_posts) =>
             /\ run'.fetched = run.fetched
             /\ scraper'.scraped_count = scraper.scraped_count]_vars

C35_Witness ==
    /\ pc = "scrape_return"
    /\ run.calls = 2
    /\ ~run.fresh
    /\ run.max_posts = 2
    /\ scraper.scraped_count = 2
    /\ Len(run.post_urls) = 2
    /\ run.fetched = <<>>
    /\ run.status = "success"

\* C36: the scraped_count scrape returns is the number of posts save_post
\* stored during the call.
C36_CountIsSaved ==
    (pc = "scrape_return" /\ run.status = "success") =>
        run.result_count = run.saved

\* C37: in the detail loop every scrape_post call but the one for the last
\* candidate of the list is followed by a sleep, whether it succeeded or
\* not; two scrape_post calls are never adjacent.
C37_DelayBetweenFetches ==
    LET ev == run.events
        fetches == {k \in 1..Len(ev) : ev[k] = "fetch"}
    IN /\ Cardinality(fetches) = Len(run.fetched)
       /\ \A k \in fetches : k < Len(ev) => ev[k + 1] = "delay"
       /\ \A k \in 1..Len(ev) : ev[k] = "delay" => k > 1 /\ ev[k - 1] = "fetch"
       /\ (ev /= <<>> /\ ev[Len(ev)] = "fetch") =>
             Len(run.fetched) = Len(run.post_urls)

C37_Witness ==
    /\ pc = "scrape_return"
    /\ run.fresh
    /\ scraper.scraped_count = 0
    /\ run.events = <<"fetch", "delay", "fetch">>

====
